---- MODULE Spec2Model ----
(***************************************************************************)
(* Model of ci/criterion_compare.py: one invocation of main() is a walk    *)
(* through the program counter                                             *)
(*   start -> scan -> render -> summary -> regress -> exit -> done         *)
(* over a file tree <root>/<benchmark>/<snapshot>/estimates.json.  The     *)
(* directory scan (Path.rglob) yields the files in any order, one loop     *)
(* iteration of collect_results per step.  Floats are exact rationals n/d  *)
(* extended with infinities; a finite product beyond FloatMax overflows to *)
(* an infinity, as an IEEE double does.                                    *)
(***************************************************************************)
EXTENDS Integers, Sequences, FiniteSets, TLC

\* ------------------------------------------------------------------ bounds
\* largest finite float of the model (stands for sys.float_info.max)
FloatMax == 1000
\* number of successive invocations over the same tree and environment
MaxRuns == 2

\* ------------------------------------------------------------------ floats
Fin(n, d) == [k |-> "fin", n |-> n, d |-> d]
PosInf == [k |-> "inf", n |-> 1, d |-> 0]
NegInf == [k |-> "inf", n |-> -1, d |-> 0]

IsInf(a) == a.k = "inf"

\* a < b on extended rationals (denominators are positive)
Lt(a, b) ==
  IF IsInf(a) /\ IsInf(b) THEN a.n < b.n
  ELSE IF IsInf(a) THEN a.n < 0
  ELSE IF IsInf(b) THEN b.n > 0
  ELSE a.n * b.d < b.n * a.d

Gt(a, b) == Lt(b, a)

Abs(n) == IF n < 0 THEN -n ELSE n

\* value * 100 in float arithmetic: infinities stay, a finite product whose
\* magnitude exceeds the largest finite float becomes an infinity
Times100(a) ==
  IF IsInf(a) THEN a
  ELSE IF Abs(a.n) * 100 > FloatMax * a.d
       THEN (IF a.n > 0 THEN PosInf ELSE NegInf)
       ELSE Fin(a.n * 100, a.d)

\* ------------------------------------------------------------- file tree
Baseline == "base"
Current == "new"
Snapshots == {Baseline, Current}

\* benchmark directories, as the characters of their path relative to the root
BenchNames == {<<1, 2>>, <<2>>}

Paths == [bench : BenchNames, snap : Snapshots]

\* a JSON value stored under the key "mean" or "Mean"
NoSec == [dict |-> FALSE, pe |-> FALSE, v |-> 0]
EmptySec == [dict |-> TRUE, pe |-> FALSE, v |-> 0]
Sec(v) == [dict |-> TRUE, pe |-> TRUE, v |-> v]

File(obj, lower, upper) == [exists |-> TRUE, obj |-> obj, mean |-> lower, Mean |-> upper]
Absent == [exists |-> FALSE, obj |-> FALSE, mean |-> NoSec, Mean |-> NoSec]

\* {"mean": {"point_estimate": 0}}
FileMean0 == File(TRUE, Sec(0), NoSec)
\* {"mean": {"point_estimate": 1}, "Mean": {"point_estimate": 2}}
FileBoth1 == File(TRUE, Sec(1), Sec(2))
\* {"mean": {}, "Mean": {"point_estimate": 2}}
FileUpper2 == File(TRUE, EmptySec, Sec(2))
\* {"mean": {}}
FileNoEstimate == File(TRUE, EmptySec, NoSec)
\* [] : a JSON document that is not an object
FileNotObject == File(FALSE, NoSec, NoSec)

FileStates == {Absent, FileMean0, FileBoth1, FileUpper2, FileNoEstimate, FileNotObject}

\* CRITERION_REGRESSION_THRESHOLD, parsed by float()
Thresholds == {Fin(-1, 1), Fin(0, 1), Fin(1, 1), Fin(FloatMax, 1)}

\* GITHUB_STEP_SUMMARY: unset, set to the empty string, or a path
SummaryPaths == {"unset", "empty", "path"}

\* content of the summary file before the first run
PriorContent == <<[kind |-> "prior"]>>

VARIABLES
  argc,          \* len(argv)
  dirExists,     \* target_dir.exists()
  threshold,     \* float(CRITERION_REGRESSION_THRESHOLD)
  summaryPath,   \* GITHUB_STEP_SUMMARY
  fs,            \* the estimates.json files below the root
  pc,            \* position of main
  pending,       \* files rglob has not yielded yet
  found,         \* the list collect_results builds, in scan order
  results,       \* main's results: the sorted list collect_results returned
  stdout,        \* what was printed to standard output, in order
  stderr,        \* what was printed to standard error, in order
  summaryFile,   \* content of the summary file
  exitCode,      \* main's return value, -1 while it has none
  err,           \* the uncaught exception, if any
  readLog,       \* files opened by load_mean_estimate in this run
  summaryBefore, \* content of the summary file when the run started
  runs,          \* invocations started so far
  prev           \* outcome of the previous invocation

vars == <<argc, dirExists, threshold, summaryPath, fs, pc, pending, found, results,
          stdout, stderr, summaryFile, exitCode, err, readLog, summaryBefore,
          runs, prev>>

inputs == <<argc, dirExists, threshold, summaryPath, fs>>

NoError == [type |-> "none", path |-> [bench |-> <<>>, snap |-> ""]]
NoPrev == [pc |-> "none", found |-> <<>>, stdout |-> <<>>, exitCode |-> -1]

\* ------------------------------------------------------ BenchmarkResult
BenchmarkResult(name, b, c) == [name |-> name, baseline_mean |-> b, current_mean |-> c]

\* means are finite floats with denominator 1 in this model
Delta(r) == Fin(r.current_mean.n - r.baseline_mean.n, 1)

PercentChange(r) ==
  IF r.baseline_mean.n = 0 THEN PosInf
  ELSE Fin(Delta(r).n, r.baseline_mean.n)

\* ---------------------------------------------------- load_mean_estimate
LoadMeanEstimate(file) ==
  IF ~file.obj THEN [ok |-> FALSE, type |-> "AttributeError", v |-> Fin(0, 1)]
  ELSE IF file.mean.dict /\ file.mean.pe THEN [ok |-> TRUE, type |-> "none", v |-> Fin(file.mean.v, 1)]
  ELSE IF file.Mean.dict /\ file.Mean.pe THEN [ok |-> TRUE, type |-> "none", v |-> Fin(file.Mean.v, 1)]
  ELSE [ok |-> FALSE, type |-> "RuntimeError", v |-> Fin(0, 1)]

\* ------------------------------------------------------- collect_results
CurrentPath(p) == [bench |-> p.bench, snap |-> Current]

IsBaselineFile(p) == p.snap = Baseline

\* faulty variant: the current-side file is not looked for
CurrentExistsUnchecked(f, p) == TRUE

CurrentExists(f, p) == f[CurrentPath(p)].exists

\* str comparison of two names: code point by code point, a proper prefix first
NameLess(a, b) ==
  \/ \E i \in 1..Len(a) :
       /\ i <= Len(b)
       /\ a[i] < b[i]
       /\ \A j \in 1..(i - 1) : a[j] = b[j]
  \/ /\ Len(a) < Len(b)
     /\ \A j \in 1..Len(a) : a[j] = b[j]

\* faulty variant: the list is returned in scan order
SortResultsSkipped(s) == s

RECURSIVE InsertSorted(_, _)
InsertSorted(r, s) ==
  IF s = <<>> THEN <<r>>
  ELSE IF NameLess(r.name, Head(s).name) THEN <<r>> \o s
  ELSE <<Head(s)>> \o InsertSorted(r, Tail(s))

\* sorted(results, key=name): stable, ascending
RECURSIVE SortResults(_)
SortResults(s) ==
  IF s = <<>> THEN <<>>
  ELSE InsertSorted(s[Len(s)], SortResults(SubSeq(s, 1, Len(s) - 1)))

\* ------------------------------------------------------------ render_table
\* f"{value:,.2f}" of a finite float: the value rounded to hundredths
FormatNs(a) == [fmt |-> ",.2f", hundredths |-> (2 * a.n * 100 + a.d) \div (2 * a.d)]

\* "{percent:+.2f}%": "+inf%" / "-inf%" or the signed value rounded to hundredths
FormatPercent(a) ==
  IF IsInf(a) THEN [fmt |-> "+.2f%", inf |-> a.n, hundredths |-> 0]
  ELSE [fmt |-> "+.2f%", inf |-> 0, hundredths |-> (2 * a.n * 100 + a.d) \div (2 * a.d)]

\* faulty variant: the threshold is tested before the sign
StatusRegressedFirst(r, t) ==
  LET percent == Times100(PercentChange(r)) IN
  IF Gt(percent, Times100(t)) THEN "regressed"
  ELSE IF Lt(percent, Fin(0, 1)) THEN "improved"
  ELSE "unchanged"

Status(r, t) ==
  LET percent == Times100(PercentChange(r)) IN
  IF Lt(percent, Fin(0, 1)) THEN "improved"
  ELSE IF Gt(percent, Times100(t)) THEN "regressed"
  ELSE "unchanged"

Row(r, t) ==
  [name |-> r.name,
   baseline |-> FormatNs(r.baseline_mean),
   current |-> FormatNs(r.current_mean),
   percent |-> FormatPercent(Times100(PercentChange(r))),
   status |-> Status(r, t)]

RenderTable(rs, t) == [kind |-> "table", rows |-> [i \in 1..Len(rs) |-> Row(rs[i], t)]]

\* ------------------------------------------------------------------- main
\* faulty variant: >= instead of >
IsRegressionOrEqual(r, t) == ~Lt(PercentChange(r), t)

IsRegression(r, t) == Gt(PercentChange(r), t)

RECURSIVE Regressions(_, _)
Regressions(rs, t) ==
  IF rs = <<>> THEN <<>>
  ELSE (IF IsRegression(Head(rs), t) THEN <<Head(rs)>> ELSE <<>>) \o Regressions(Tail(rs), t)

\* f"{value:.2f}"
Format2(a) == [fmt |-> ".2f", hundredths |-> (2 * a.n * 100 + a.d) \div (2 * a.d)]

Item(r) ==
  [kind |-> "item",
   name |-> r.name,
   percent |-> FormatPercent(Times100(PercentChange(r))),
   baseline |-> Format2(r.baseline_mean),
   current |-> Format2(r.current_mean)]

RegressionHeader == [kind |-> "regressions"]

SummaryEnabled(path) == path = "path"

\* faulty variant: the file is opened for writing, not appending
SummaryOverwrite(content, table) ==
  <<[kind |-> "heading"], table, [kind |-> "newline"]>>

SummaryAppend(content, table) ==
  content \o <<[kind |-> "heading"], table, [kind |-> "newline"]>>

Init ==
  /\ argc \in {1, 2, 3}
  /\ dirExists \in BOOLEAN
  /\ threshold \in Thresholds
  /\ summaryPath \in SummaryPaths
  /\ fs \in [Paths -> FileStates]
  /\ pc = "start"
  /\ pending = {}
  /\ found = <<>>
  /\ results = <<>>
  /\ stdout = <<>>
  /\ stderr = <<>>
  /\ summaryFile = PriorContent
  /\ exitCode = -1
  /\ err = NoError
  /\ readLog = {}
  /\ summaryBefore = PriorContent
  /\ runs = 1
  /\ prev = NoPrev

\* main, lines 87-89: wrong argument count
UsageError ==
  /\ pc = "start"
  /\ argc # 2
  /\ stderr' = Append(stderr, "usage")
  /\ exitCode' = 2
  /\ pc' = "done"
  /\ UNCHANGED <<inputs, pending, found, results, stdout, summaryFile, err, readLog,
                 summaryBefore, runs, prev>>

\* main, lines 91-94: the target directory does not exist
MissingDirectory ==
  /\ pc = "start"
  /\ argc = 2
  /\ ~dirExists
  /\ stderr' = Append(stderr, "missing")
  /\ exitCode' = 2
  /\ pc' = "done"
  /\ UNCHANGED <<inputs, pending, found, results, stdout, summaryFile, err, readLog,
                 summaryBefore, runs, prev>>

\* faulty variant: the scan starts without the exists() check
StartScanUnchecked ==
  /\ pc = "start"
  /\ argc = 2
  /\ pending' = {p \in Paths : fs[p].exists}
  /\ found' = <<>>
  /\ pc' = "scan"
  /\ UNCHANGED <<inputs, results, stdout, stderr, summaryFile, exitCode, err, readLog,
                 summaryBefore, runs, prev>>

\* main, lines 96-100 and collect_results, lines 47-48: the scan starts
StartScan ==
  /\ pc = "start"
  /\ argc = 2
  /\ dirExists
  /\ pending' = {p \in Paths : fs[p].exists}
  /\ found' = <<>>
  /\ pc' = "scan"
  /\ UNCHANGED <<inputs, results, stdout, stderr, summaryFile, exitCode, err, readLog,
                 summaryBefore, runs, prev>>

\* collect_results, lines 49-54: the file is not a baseline file, or its
\* benchmark has no current-side file
ScanSkip ==
  /\ pc = "scan"
  /\ \E p \in pending :
       /\ ~IsBaselineFile(p) \/ ~CurrentExists(fs, p)
       /\ pending' = pending \ {p}
  /\ UNCHANGED <<inputs, pc, found, results, stdout, stderr, summaryFile, exitCode, err,
                 readLog, summaryBefore, runs, prev>>

\* collect_results, lines 55-58: both files are read and the result appended
ScanAppend ==
  /\ pc = "scan"
  /\ \E p \in pending :
       LET b == LoadMeanEstimate(fs[p])
           c == LoadMeanEstimate(fs[CurrentPath(p)])
       IN /\ IsBaselineFile(p) /\ CurrentExists(fs, p)
          /\ b.ok /\ c.ok
          /\ found' = Append(found, BenchmarkResult(p.bench, b.v, c.v))
          /\ readLog' = readLog \cup {p, CurrentPath(p)}
          /\ pending' = pending \ {p}
  /\ UNCHANGED <<inputs, pc, results, stdout, stderr, summaryFile, exitCode, err,
                 summaryBefore, runs, prev>>

\* collect_results, lines 55-56: load_mean_estimate raises; nothing catches it
ScanAbort ==
  /\ pc = "scan"
  /\ \E p \in pending :
       LET b == LoadMeanEstimate(fs[p])
           c == LoadMeanEstimate(fs[CurrentPath(p)])
       IN /\ IsBaselineFile(p) /\ CurrentExists(fs, p)
          /\ ~b.ok \/ ~c.ok
          /\ err' = IF ~b.ok THEN [type |-> b.type, path |-> p]
                    ELSE [type |-> c.type, path |-> CurrentPath(p)]
          /\ readLog' = readLog \cup (IF ~b.ok THEN {p} ELSE {p, CurrentPath(p)})
          /\ pending' = pending \ {p}
  /\ pc' = "aborted"
  /\ UNCHANGED <<inputs, found, results, stdout, stderr, summaryFile, exitCode,
                 summaryBefore, runs, prev>>

\* collect_results, line 59 and main, lines 100-106: the sorted list comes
\* back; an empty one ends the run with exit code 2
CollectReturn ==
  /\ pc = "scan"
  /\ pending = {}
  /\ results' = SortResults(found)
  /\ IF found = <<>>
     THEN /\ stderr' = Append(stderr, "nobenchmarks")
          /\ exitCode' = 2
          /\ pc' = "done"
     ELSE /\ pc' = "render"
          /\ UNCHANGED <<stderr, exitCode>>
  /\ UNCHANGED <<inputs, pending, found, stdout, summaryFile, err, readLog,
                 summaryBefore, runs, prev>>

\* faulty variant: the table is printed only when nothing regressed
PrintTableWhenClean ==
  /\ pc = "render"
  /\ stdout' = IF Regressions(results, threshold) = <<>>
               THEN Append(stdout, RenderTable(results, threshold))
               ELSE stdout
  /\ pc' = "summary"
  /\ UNCHANGED <<inputs, pending, found, results, stderr, summaryFile, exitCode, err,
                 readLog, summaryBefore, runs, prev>>

\* main, lines 108-109
PrintTable ==
  /\ pc = "render"
  /\ stdout' = Append(stdout, RenderTable(results, threshold))
  /\ pc' = "summary"
  /\ UNCHANGED <<inputs, pending, found, results, stderr, summaryFile, exitCode, err,
                 readLog, summaryBefore, runs, prev>>

\* main, lines 111-116: the table printed at line 109 is appended to the file
AppendSummary ==
  /\ pc = "summary"
  /\ SummaryEnabled(summaryPath)
  /\ summaryFile' = SummaryAppend(summaryFile, RenderTable(results, threshold))
  /\ pc' = "regress"
  /\ UNCHANGED <<inputs, pending, found, results, stdout, stderr, exitCode, err,
                 readLog, summaryBefore, runs, prev>>

\* main, line 112: no summary path, or an empty one
SkipSummary ==
  /\ pc = "summary"
  /\ ~SummaryEnabled(summaryPath)
  /\ pc' = "regress"
  /\ UNCHANGED <<inputs, pending, found, results, stdout, stderr, summaryFile, exitCode,
                 err, readLog, summaryBefore, runs, prev>>

\* main, lines 118-127: the itemized list
PrintRegressions ==
  /\ pc = "regress"
  /\ Regressions(results, threshold) # <<>>
  /\ stdout' = stdout \o <<RegressionHeader>>
                 \o [i \in 1..Len(Regressions(results, threshold)) |->
                       Item(Regressions(results, threshold)[i])]
  /\ pc' = "exit"
  /\ UNCHANGED <<inputs, pending, found, results, stderr, summaryFile, exitCode, err,
                 readLog, summaryBefore, runs, prev>>

\* main, line 128
ReturnRegressed ==
  /\ pc = "exit"
  /\ exitCode' = 1
  /\ pc' = "done"
  /\ UNCHANGED <<inputs, pending, found, results, stdout, stderr, summaryFile, err,
                 readLog, summaryBefore, runs, prev>>

\* main, lines 121 and 130: no regression
ReturnClean ==
  /\ pc = "regress"
  /\ Regressions(results, threshold) = <<>>
  /\ exitCode' = 0
  /\ pc' = "done"
  /\ UNCHANGED <<inputs, pending, found, results, stdout, stderr, summaryFile, err,
                 readLog, summaryBefore, runs, prev>>

\* the script is invoked again on the same tree with the same environment;
\* only the summary file carries over (line 134: a fresh process)
Rerun ==
  /\ pc \in {"done", "aborted"}
  /\ runs < MaxRuns
  /\ runs' = runs + 1
  /\ prev' = [pc |-> pc, found |-> found, stdout |-> stdout, exitCode |-> exitCode]
  /\ summaryBefore' = summaryFile
  /\ pc' = "start"
  /\ pending' = {}
  /\ found' = <<>>
  /\ results' = <<>>
  /\ stdout' = <<>>
  /\ stderr' = <<>>
  /\ exitCode' = -1
  /\ err' = NoError
  /\ readLog' = {}
  /\ UNCHANGED <<inputs, summaryFile>>

Next ==
  \/ UsageError
  \/ MissingDirectory
  \/ StartScan
  \/ ScanSkip
  \/ ScanAppend
  \/ ScanAbort
  \/ CollectReturn
  \/ PrintTable
  \/ AppendSummary
  \/ SkipSummary
  \/ PrintRegressions
  \/ ReturnRegressed
  \/ ReturnClean
  \/ Rerun

Spec == Init /\ [][Next]_vars

TypeOK ==
  /\ pc \in {"start", "scan", "render", "summary", "regress", "exit", "done", "aborted"}
  /\ exitCode \in {-1, 0, 1, 2}
  /\ pending \subseteq Paths
  /\ runs \in 1..MaxRuns

\* ------------------------------------------------------------ observations
\* benchmarks with an estimates.json under both snapshots
ComparableBenches ==
  {b \in BenchNames : /\ fs[[bench |-> b, snap |-> Baseline]].exists
                      /\ fs[[bench |-> b, snap |-> Current]].exists}

Completed == pc = "done" /\ exitCode \in {0, 1}

AfterCollect == pc \in {"render", "summary", "regress", "exit"} \/ Completed

Names(s) == {s[i].name : i \in 1..Len(s)}

TablePrinted == stdout # <<>> /\ stdout[1].kind = "table"

Rows == stdout[1].rows

RowsWith(status) == {i \in 1..Len(Rows) : Rows[i].status = status}

ItemIndexes == {j \in 1..Len(stdout) : stdout[j].kind = "item"}

ItemNames == {stdout[j].name : j \in ItemIndexes}

ListIndexes == {j \in 1..Len(stdout) : stdout[j].kind \in {"regressions", "item"}}

\* (current - baseline) / baseline < 0 over the reals, for a positive baseline
Negative(r) ==
  r.baseline_mean.n # 0 /\ r.current_mean.n < r.baseline_mean.n

\* percent_change > t over the extended reals, for a baseline >= 0 and a finite t
Exceeds(r, t) ==
  \/ r.baseline_mean.n = 0
  \/ (r.current_mean.n - r.baseline_mean.n) * t.d > t.n * r.baseline_mean.n

\* 100 * t is beyond the largest finite float
ScaledOverflows(t) == t.n * 100 > FloatMax * t.d

\* 100 * percent_change > 100 * t with both products computed in floats
ScaledExceeds(r, t) == ~ScaledOverflows(t) /\ Exceeds(r, t)

SummaryAfterRun == summaryBefore \o <<[kind |-> "heading"], stdout[1], [kind |-> "newline"]>>

IsPrefix(s, t) == Len(s) <= Len(t) /\ \A i \in 1..Len(s) : s[i] = t[i]

Ascending(s) == \A i, j \in 1..Len(s) : i < j => NameLess(s[i].name, s[j].name)

\* neither "mean" nor "Mean" is an object containing point_estimate
Malformed(file) ==
  ~(file.mean.dict /\ file.mean.pe) /\ ~(file.Mean.dict /\ file.Mean.pe)

\* ------------------------------------------------------------------ claims

\* C1: a run that finds a comparable benchmark and does not abort returns 1
\* if some result has percent_change > threshold, and 0 otherwise.
C1_ExitCodeIffRegression ==
  (pc = "done" /\ argc = 2 /\ dirExists /\ ComparableBenches # {}) =>
    exitCode = IF \E i \in 1..Len(results) : Exceeds(results[i], threshold)
               THEN 1 ELSE 0

C1_Witness ==
  /\ pc = "done" /\ exitCode = 1 /\ Len(results) = 2
  /\ \E i \in 1..2 : ~Exceeds(results[i], threshold)

C3_DisplayAgreesWithExit ==
  Completed =>
    /\ {Rows[i].name : i \in RowsWith("regressed")} = ItemNames
    /\ exitCode = 1 => RowsWith("regressed") # {}

\* C4: a result with baseline_mean = 0 has percent_change +inf, is labelled
\* "regressed", is itemized and makes the run return 1, for any finite
\* threshold; otherwise percent_change = (current - baseline) / baseline.
C4_ZeroBaselineRegressed ==
  Completed =>
    \A i \in 1..Len(results) :
      LET r == results[i] IN
      IF r.baseline_mean.n = 0
      THEN /\ Rows[i].percent.inf = 1
           /\ Rows[i].status = "regressed"
           /\ r.name \in ItemNames
           /\ exitCode = 1
      ELSE /\ Rows[i].percent.inf = 0
           /\ Rows[i].percent.hundredths * r.baseline_mean.n
                = (r.current_mean.n - r.baseline_mean.n) * 10000

\* C5: collect_results returns exactly the benchmarks with both files, each
\* once; a baseline-only benchmark is never read, reported or an error.
C5_ExactlyComparable ==
  /\ Names(found) \subseteq ComparableBenches
  /\ {p.bench : p \in readLog} \subseteq ComparableBenches
  /\ AfterCollect =>
       /\ Names(results) = ComparableBenches
       /\ Len(results) = Cardinality(ComparableBenches)
  /\ TablePrinted => Names(Rows) \subseteq ComparableBenches
  /\ ItemNames \subseteq ComparableBenches
  /\ pc = "aborted" => err.path.bench \in ComparableBenches

C5_Witness ==
  /\ Completed
  /\ \E b \in BenchNames :
       /\ fs[[bench |-> b, snap |-> Baseline]] = FileNoEstimate
       /\ ~fs[[bench |-> b, snap |-> Current]].exists

\* C6: whatever order the scan yields the files in, the returned list, the
\* table rows and the itemized list ascend by name, and a second run over
\* the same files prints the same output and returns the same exit code.
C6_SortedOutput ==
  /\ AfterCollect => Ascending(results)
  /\ TablePrinted => Ascending(Rows)
  /\ \A i, j \in ItemIndexes : i < j => NameLess(stdout[i].name, stdout[j].name)
  /\ (pc = "done" /\ prev.pc = "done") =>
       stdout = prev.stdout /\ exitCode = prev.exitCode

C6_Witness ==
  /\ pc = "done" /\ prev.pc = "done" /\ exitCode = 1
  /\ Len(found) = 2 /\ found # prev.found
  /\ Cardinality(ItemIndexes) = 2

\* C7: a malformed file of a benchmark with both snapshots makes the run
\* abort with the "unexpected estimate structure" RuntimeError, with no exit
\* code, nothing on standard output and nothing appended to the summary.
C7_MalformedAborts ==
  ( /\ pc \in {"done", "aborted"} /\ argc = 2 /\ dirExists
    /\ \E b \in ComparableBenches, s \in Snapshots :
         Malformed(fs[[bench |-> b, snap |-> s]]) ) =>
    /\ pc = "aborted"
    /\ err.type = "RuntimeError"
    /\ exitCode = -1
    /\ stdout = <<>>
    /\ summaryFile = summaryBefore

\* C8: main returns 2 exactly for a wrong argument count, a missing
\* directory or no comparable benchmark; then nothing is on standard output
\* and the summary file is untouched; a usage error scans and reads nothing.
C8_ExitTwo ==
  /\ pc = "done" =>
       (exitCode = 2 <=> (argc # 2 \/ ~dirExists \/ ComparableBenches = {}))
  /\ pc = "aborted" => (argc = 2 /\ dirExists /\ ComparableBenches # {})
  /\ exitCode = 2 => (stdout = <<>> /\ summaryFile = summaryBefore)
  /\ (argc # 2 \/ ~dirExists) =>
       /\ pc \in {"start", "done"}
       /\ pending = {} /\ found = <<>> /\ readLog = {}

C8_Witness ==
  /\ pc = "done" /\ exitCode = 2 /\ argc = 2 /\ dirExists
  /\ summaryPath = "path"
  /\ \E b \in BenchNames : fs[[bench |-> b, snap |-> Baseline]].exists

\* C9: with a summary path, a completed run leaves the file as its content
\* before the run followed by a heading and the printed table, once; earlier
\* content stays a prefix over successive runs; without a path (unset or
\* empty) the file is never written.
C9_SummaryAppended ==
  /\ Completed =>
       summaryFile = IF summaryPath = "path" THEN SummaryAfterRun ELSE summaryBefore
  /\ IsPrefix(PriorContent, summaryBefore)
  /\ IsPrefix(summaryBefore, summaryFile)
  /\ summaryPath # "path" => summaryFile = PriorContent

C9_Witness ==
  /\ Completed /\ exitCode = 1 /\ runs = 2
  /\ summaryPath = "path"
  /\ Len(summaryFile) = 7

\* C10: a completed run prints the table once, first, with one row per
\* comparable benchmark; the itemized list and exit code 1 come only after
\* the table and the summary append, and every item has a row.
C10_TableBeforeList ==
  /\ Completed =>
       /\ TablePrinted
       /\ {j \in 1..Len(stdout) : stdout[j].kind = "table"} = {1}
       /\ Len(Rows) = Cardinality(ComparableBenches)
       /\ Names(Rows) = ComparableBenches
  /\ ListIndexes # {} =>
       /\ TablePrinted
       /\ 1 \notin ListIndexes
       /\ ItemNames \subseteq Names(Rows)
       /\ summaryPath = "path" => summaryFile = SummaryAfterRun
  /\ exitCode = 1 => ItemIndexes # {}
  /\ exitCode = 0 => ListIndexes = {}

C10_Witness ==
  /\ pc = "done" /\ exitCode = 1
  /\ summaryPath = "path"
  /\ Len(stdout) = 4
====
